---- MODULE Spec2Model ----
(***************************************************************************)
(* Model of jcarbon/tensorflow/callbacks.py: the Keras callbacks that      *)
(* drive a JCarbon sampling session from the training loop's hooks and     *)
(* accumulate the backend's reports per epoch.                             *)
(*                                                                         *)
(* Time is counted in ticks of 0.1 s (time.time() is a float of seconds);  *)
(* a pandas Series is the sequence of its rows; a dict is a function on    *)
(* its keys; None and a missing attribute are explicit tags.               *)
(***************************************************************************)
EXTENDS Integers, Sequences, FiniteSets, TLC

(***************************************************************************)
(* Bounds of the model.                                                    *)
(***************************************************************************)
MaxEpochs == 2
MaxIters == 5
MaxNow == 27
MaxHooks == 5
MaxMerge == 3
MaxSamples == 3

(***************************************************************************)
(* Program constants.                                                      *)
(***************************************************************************)
DEFAULT_PERIOD_SECS == 2

UNITS == [u \in {"GRAMS_OF_CO2", "JOULES", "ACTIVITY", "NANOSECONDS", "JIFFIES", "WATTS"} |->
            CASE u = "GRAMS_OF_CO2" -> "CO2"
              [] u = "JOULES" -> "J"
              [] u = "ACTIVITY" -> "%"
              [] u = "NANOSECONDS" -> "ns"
              [] u = "JIFFIES" -> ""
              [] u = "WATTS" -> "W"]

\* seconds, as the ticks of the model's clock
Ticks(sec) == sec * 10

(***************************************************************************)
(* Inputs: what the environment (clock, backend, training loop) supplies.  *)
(***************************************************************************)
\* the constructor's chunking_period_sec, in seconds
ChunkingPeriods == {1, DEFAULT_PERIOD_SECS}

\* the clock's advance, in ticks: over a batch (between its begin and its end hook);
\* every other hook reads the clock as the hook before it did
BatchDeltas == {5, 6}
GapDeltas == {0}

Sample(ct, cid, unit, src, v) ==
    [component_type |-> ct, component_id |-> cid, unit |-> unit, source |-> src, value |-> v]

\* the Reports the backend answers a read with
RA == << Sample("CPU", 0, "JOULES", "rapl", 3), Sample("CPU", 0, "JOULES", "rapl", -1) >>
RB == << Sample("GPU", 0, "JOULES", "nvml", 2) >>
Reports == {RA, RB}

\* the Reports that merging is tried on
RC == << Sample("CPU", 1, "WATTS", "rapl", 7) >>
RD == << Sample("GPU", 0, "JOULES", "nvml", 0), Sample("CPU", 0, "JOULES", "rapl", 3) >>
MergeReports == Reports \cup {RC, RD}

\* the samples of the Reports that the digest is tried on
DigestSamples ==
    { Sample("CPU", 0, "JOULES", "rapl", 3), Sample("CPU", 0, "JOULES", "rapl", -1),
      Sample("CPU", 0, "JOULES", "rapl", 2), Sample("CPU", 1, "JOULES", "rapl", 4),
      Sample("CPU", 0, "WATTS", "rapl", 7), Sample("GPU", 0, "JOULES", "nvml", 0) }

\* the sequences of at most n elements of S
SeqsUpTo(S, n) == UNION {[1..m -> S] : m \in 0..n}

\* the metrics map the training loop passes to a hook: None, {} or {'loss': 1}
LossKey == << "loss", "" >>
NoLogs == [isNone |-> TRUE, d |-> << >>]
EmptyLogs == [isNone |-> FALSE, d |-> << >>]
LossLogs == [isNone |-> FALSE, d |-> [k \in {LossKey} |-> 1]]
LogsIn == {NoLogs, EmptyLogs, LossLogs}

(***************************************************************************)
(* pandas and jcarbon.report helpers.                                      *)
(***************************************************************************)
\* jcarbon.report.to_dataframe: a Series of the values, indexed by the group key
to_dataframe(report) ==
    [i \in 1..Len(report) |->
        [idx |-> << report[i].component_type, report[i].component_id,
                    report[i].unit, report[i].source >>,
         value |-> report[i].value]]

\* pd.concat of a list of Series: their rows, in the order of the list
RECURSIVE pd_concat(_)
pd_concat(objs) ==
    IF objs = << >> THEN << >> ELSE Head(objs) \o pd_concat(Tail(objs))

\* list(map(to_dataframe, reports))
MapToDataframe(reports) == [i \in 1..Len(reports) |-> to_dataframe(reports[i])]

\* series.to_frame().assign(epoch=epoch).set_index('epoch', append=True)
TagEpoch(series, epoch) ==
    [i \in 1..Len(series) |-> [idx |-> Append(series[i].idx, epoch), value |-> series[i].value]]

\* d[k] = v on a dict
Put(d, k, v) == [x \in DOMAIN d \cup {k} |-> IF x = k THEN v ELSE d[x]]

\* the order of Python's str on the strings of the model
StrRank(s) ==
    CASE s = "CPU" -> 1 [] s = "GPU" -> 2
      [] s = "JOULES" -> 1 [] s = "WATTS" -> 2
      [] s = "nvml" -> 1 [] s = "rapl" -> 2

\* the order of Python's tuples on group keys (component_type, component_id, unit, source)
KeyLess(a, b) ==
    \/ StrRank(a[1]) < StrRank(b[1])
    \/ a[1] = b[1] /\ a[2] < b[2]
    \/ a[1] = b[1] /\ a[2] = b[2] /\ StrRank(a[3]) < StrRank(b[3])
    \/ a[1] = b[1] /\ a[2] = b[2] /\ a[3] = b[3] /\ StrRank(a[4]) < StrRank(b[4])

\* the keys of df.groupby([...]), which sorts them
RECURSIVE SortedKeys(_)
SortedKeys(S) ==
    IF S = {} THEN << >>
    ELSE LET m == CHOOSE k \in S : \A o \in S \ {k} : KeyLess(k, o)
         IN << m >> \o SortedKeys(S \ {m})

GroupKeys(df) == {df[i].idx : i \in DOMAIN df}

\* the rows of one group, in the order of the Series
Group(df, k) == SelectSeq(df, LAMBDA row : row.idx = k)

\* mutant: df.sum(), the negative values counted
RECURSIVE PositiveSum_All(_)
PositiveSum_All(rows) ==
    IF rows = << >> THEN 0 ELSE Head(rows).value + PositiveSum_All(Tail(rows))

\* df[df > 0].sum()
RECURSIVE PositiveSum(_)
PositiveSum(rows) ==
    IF rows = << >> THEN 0
    ELSE (IF Head(rows).value > 0 THEN Head(rows).value ELSE 0) + PositiveSum(Tail(rows))

\* the key f'{component_type}-{UNITS[unit]}'
LogKey(component_type, unit) == << component_type, UNITS[unit] >>

\* the assignments logs[key] = value of add_jcarbon_log's loop, one per JOULES group
RECURSIVE LogWrites(_, _)
LogWrites(keys, df) ==
    IF keys = << >> THEN << >>
    ELSE LET k == Head(keys)
         IN (IF k[3] = "JOULES"
             THEN << [key |-> LogKey(k[1], k[3]), value |-> PositiveSum(Group(df, k))] >>
             ELSE << >>) \o LogWrites(Tail(keys), df)

\* a dict after the assignments, done in order
RECURSIVE ApplyWrites(_, _)
ApplyWrites(d, writes) ==
    IF writes = << >> THEN d
    ELSE ApplyWrites(Put(d, Head(writes).key, Head(writes).value), Tail(writes))

\* what add_jcarbon_log(df, logs) assigns: nothing when logs is None or empty
LogAssignments(df, logs) ==
    IF ~logs.isNone /\ DOMAIN logs.d # {}
    THEN LogWrites(SortedKeys(GroupKeys(df)), df)
    ELSE << >>

\* add_jcarbon_log(df, logs): the metrics map after the call
add_jcarbon_log(df, logs) ==
    [logs EXCEPT !.d = ApplyWrites(@, LogAssignments(df, logs))]

(***************************************************************************)
(* State.                                                                  *)
(***************************************************************************)
VARIABLES
    now,        \* time.time(), in ticks
    phase,      \* the training loop: "idle" (between epochs), "epoch", "batch"
    epoch,      \* the training loop: index of the current (or next) epoch
    iter,       \* the training loop: batches ended in the current epoch
    chunk,      \* the JCarbonChunkingCallback object
    chunk2,     \* the JCarbonChunkingCallback2 object
    expt,       \* the JCarbonExperimentCallback object
    backend,    \* per callback, its JCarbonClient's session at the service
    out,        \* per callback, how its last hook went: the error raised, the remote calls made
    logs,       \* per callback, the metrics map its last hook was passed, as the hook left it
    obs,        \* per callback, since its last epochBegin: calls counted, Reports read
    trace,      \* per callback, its remote calls since construction, up to its first start
    simple,     \* the callbacks that do not chunk: JCarbonEpochCallback,
                \* JCarbonBatchCallback, JCarbonDumpingEpochCallback
    pf          \* the arguments and results of a function applied on its own

vars == << now, phase, epoch, iter, chunk, chunk2, expt, backend, out, logs, obs, trace,
           simple, pf >>

Callbacks == {"chunking", "chunking2", "experiment"}
Variants == {"epoch", "batch", "dumping"}

\* None, or a value: a Series' rows, a list's items
NoneValue == [isNone |-> TRUE, rows |-> << >>]
Value(rows) == [isNone |-> FALSE, rows |-> rows]

(***************************************************************************)
(* A frame is one callback's run of one hook: the object, its client's     *)
(* session, the metrics map, and what the hook did so far.  An exception   *)
(* ends the hook: every later step leaves the frame as it is.              *)
(***************************************************************************)
\* ret: the Reports the hook's reads returned; checked: the boundary test was evaluated;
\* writes: the assignments add_jcarbon_log made to the metrics map;
\* fail: the remote call that the backend fails in this hook, if it is made
Frame(obj, sess, lg, fail) ==
    [obj |-> obj, sess |-> sess, logs |-> lg, fail |-> fail, err |-> "none",
     calls |-> << >>, ret |-> << >>, checked |-> FALSE, fired |-> FALSE, writes |-> << >>]

Ok(f) == f.err = "none"
Raise(f, e) == [f EXCEPT !.err = e]
Called(f, op) == [f EXCEPT !.calls = Append(@, op)]

\* JCarbonClient.purge
client_purge(f) ==
    IF ~Ok(f) THEN f
    ELSE IF f.fail = "purge" THEN Raise(Called(f, "purge"), "BackendUnavailableError")
    ELSE [Called(f, "purge") EXCEPT !.sess.unread = FALSE]

\* JCarbonClient.start: fails if a session is already open for the pid
client_start(f) ==
    IF ~Ok(f) THEN f
    ELSE IF f.fail = "start" THEN Raise(Called(f, "start"), "BackendUnavailableError")
    ELSE IF f.sess.open THEN Raise(Called(f, "start"), "SessionAlreadyOpenError")
    ELSE [Called(f, "start") EXCEPT !.sess.open = TRUE]

\* JCarbonClient.stop: fails if no session is open for the pid
client_stop(f) ==
    IF ~Ok(f) THEN f
    ELSE IF f.fail = "stop" THEN Raise(Called(f, "stop"), "BackendUnavailableError")
    ELSE IF ~f.sess.open THEN Raise(Called(f, "stop"), "NoOpenSessionError")
    ELSE [Called(f, "stop") EXCEPT !.sess.open = FALSE, !.sess.unread = TRUE]

\* JCarbonClient.read: the Report r of the last window
client_read(f, r) ==
    IF ~Ok(f) THEN f
    ELSE IF f.fail = "read" THEN Raise(Called(f, "read"), "BackendUnavailableError")
    ELSE [Called(f, "read") EXCEPT !.ret = Append(@, r), !.sess.unread = FALSE]

\* JCarbonClient.dump: the Report of the last window, written to the file of epoch e
client_dump(f, e) ==
    IF ~Ok(f) THEN f
    ELSE IF f.fail = "dump" THEN Raise(Called(f, "dump"), "BackendUnavailableError")
    ELSE [Called(f, "dump") EXCEPT !.sess.unread = FALSE, !.sess.files = @ \cup {e}]

\* mutant: the session is started without a purge
start_jcarbon_NoPurge(f) == client_start(f)

\* JCarbonCallback.start_jcarbon
start_jcarbon(f) == client_start(client_purge(f))

\* mutant: a stop that the backend failed is tried a second time
stop_jcarbon_Retry(f, r) ==
    LET f1 == client_stop(f)
    IN IF f1.err = "BackendUnavailableError"
       THEN client_read(client_stop([f1 EXCEPT !.err = "none", !.fail = "none"]), r)
       ELSE client_read(f1, r)

\* JCarbonCallback.stop_jcarbon; Returned is the Report it returns
stop_jcarbon(f, r) == client_read(client_stop(f), r)
Returned(f) == f.ret[Len(f.ret)]

(***************************************************************************)
(* JCarbonChunkingCallback.                                                *)
(***************************************************************************)
\* __init__: time and last_report are not attributes yet
ChunkingInit(period) ==
    [attrs |-> {}, time |-> 0, last_report |-> NoneValue,
     reports |-> << >>, chunking_period_sec |-> period]

\* mutant: the new window is put before what was accumulated
Accumulate_Prepend(last_report, report) ==
    IF last_report.isNone
    THEN Value(to_dataframe(report))
    ELSE Value(pd_concat(<< to_dataframe(report), last_report.rows >>))

\* mutant: the else branch forgets what was accumulated
Accumulate_Overwrite(last_report, report) ==
    Value(to_dataframe(report))

\* the if/else that adds a window's Report to self.last_report
Accumulate(last_report, report) ==
    IF last_report.isNone
    THEN Value(to_dataframe(report))
    ELSE Value(pd_concat(<< last_report.rows, to_dataframe(report) >>))

\* mutant: >= for >
BoundaryDue_AtLeast(obj, curr) == curr - obj.time >= Ticks(obj.chunking_period_sec)

\* curr - self.time > self.chunking_period_sec
BoundaryDue(obj, curr) == curr - obj.time > Ticks(obj.chunking_period_sec)

\* mutant: the digest is taken of the window just read, not of the accumulation
ChunkingFlush_PerChunk(f, r) ==
    LET f1 == stop_jcarbon(f, r)
        f2 == IF Ok(f1)
              THEN [f1 EXCEPT !.obj.last_report = Accumulate(f.obj.last_report, Returned(f1))]
              ELSE f1
    IN IF Ok(f2)
       THEN [f2 EXCEPT !.logs = add_jcarbon_log(to_dataframe(Returned(f1)), f2.logs),
                       !.writes = LogAssignments(to_dataframe(Returned(f1)), f2.logs)]
       ELSE f2

\* stop_jcarbon, accumulate, add_jcarbon_log: the flush both hooks share
ChunkingFlush(f, r) ==
    LET f1 == stop_jcarbon(f, r)
        f2 == IF Ok(f1)
              THEN [f1 EXCEPT !.obj.last_report = Accumulate(f.obj.last_report, Returned(f1))]
              ELSE f1
    IN IF Ok(f2)
       THEN [f2 EXCEPT !.logs = add_jcarbon_log(f2.obj.last_report.rows, f2.logs),
                       !.writes = LogAssignments(f2.obj.last_report.rows, f2.logs)]
       ELSE f2

\* mutant: the epoch begins without a session
Chunking_on_epoch_begin_NoStart(f, curr) ==
    [f EXCEPT !.obj.time = curr,
              !.obj.last_report = NoneValue,
              !.obj.attrs = @ \cup {"time", "last_report"}]

Chunking_on_epoch_begin(f, curr) ==
    start_jcarbon([f EXCEPT !.obj.time = curr,
                            !.obj.last_report = NoneValue,
                            !.obj.attrs = @ \cup {"time", "last_report"}])

\* mutant: the session is not started again after the flush
Chunking_on_train_batch_end_NoRestart(f, curr, r) ==
    IF "time" \notin f.obj.attrs THEN Raise(f, "AttributeError")
    ELSE IF BoundaryDue(f.obj, curr)
    THEN ChunkingFlush([f EXCEPT !.obj.time = curr, !.checked = TRUE, !.fired = TRUE], r)
    ELSE [f EXCEPT !.checked = TRUE]

Chunking_on_train_batch_end(f, curr, r) ==
    IF "time" \notin f.obj.attrs THEN Raise(f, "AttributeError")
    ELSE IF BoundaryDue(f.obj, curr)
    THEN start_jcarbon(ChunkingFlush(
            [f EXCEPT !.obj.time = curr, !.checked = TRUE, !.fired = TRUE], r))
    ELSE [f EXCEPT !.checked = TRUE]

\* mutant: the session is started again, as at a chunk boundary
Chunking_on_epoch_end_Restart(f, e, r) ==
    IF "last_report" \notin f.obj.attrs THEN Raise(f, "AttributeError")
    ELSE LET f1 == start_jcarbon(ChunkingFlush(f, r))
         IN IF Ok(f1)
            THEN [f1 EXCEPT !.obj.reports = Put(@, e, TagEpoch(f1.obj.last_report.rows, e))]
            ELSE f1

Chunking_on_epoch_end(f, e, r) ==
    IF "last_report" \notin f.obj.attrs THEN Raise(f, "AttributeError")
    ELSE LET f1 == ChunkingFlush(f, r)
         IN IF Ok(f1)
            THEN [f1 EXCEPT !.obj.reports = Put(@, e, TagEpoch(f1.obj.last_report.rows, e))]
            ELSE f1

(***************************************************************************)
(* JCarbonChunkingCallback2: the Reports are kept in a list and merged at  *)
(* epoch end.                                                              *)
(***************************************************************************)
Chunking2Init(period) ==
    [attrs |-> {}, time |-> 0, last_report |-> NoneValue,
     reports |-> << >>, chunking_period_sec |-> period]

\* mutant: the else branch starts a new list
Accumulate2_Replace(last_report, report) ==
    Value(<< report >>)

\* the if/else that adds a window's Report to the list self.last_report
Accumulate2(last_report, report) ==
    IF last_report.isNone
    THEN Value(<< report >>)
    ELSE Value(Append(last_report.rows, report))

Chunking2Flush(f, r) ==
    LET f1 == stop_jcarbon(f, r)
    IN IF Ok(f1)
       THEN [f1 EXCEPT !.obj.last_report = Accumulate2(f.obj.last_report, Returned(f1))]
       ELSE f1

\* pd.concat(list(map(to_dataframe, self.last_report)))
MergeAll(reports) == pd_concat(MapToDataframe(reports))

Chunking2_on_epoch_begin(f, curr) ==
    start_jcarbon([f EXCEPT !.obj.time = curr,
                            !.obj.last_report = NoneValue,
                            !.obj.attrs = @ \cup {"time", "last_report"}])

Chunking2_on_train_batch_end(f, curr, r) ==
    IF "time" \notin f.obj.attrs THEN Raise(f, "AttributeError")
    ELSE IF BoundaryDue(f.obj, curr)
    THEN start_jcarbon(Chunking2Flush(
            [f EXCEPT !.obj.time = curr, !.checked = TRUE, !.fired = TRUE], r))
    ELSE [f EXCEPT !.checked = TRUE]

Chunking2_on_epoch_end(f, e, r) ==
    IF "last_report" \notin f.obj.attrs THEN Raise(f, "AttributeError")
    ELSE LET f1 == Chunking2Flush(f, r)
         IN IF Ok(f1)
            THEN [f1 EXCEPT !.obj.reports = Put(@, e, TagEpoch(MergeAll(f1.obj.last_report.rows), e))]
            ELSE f1

(***************************************************************************)
(* JCarbonExperimentCallback: the chunking callback, plus a table of the   *)
(* batches' start and end times.  A time is kept as its clock reading t    *)
(* and the number e9 of times it was multiplied by 10**9.                  *)
(***************************************************************************)
\* __init__: chunking_period_sec is not handed to the parent's __init__
ExperimentInit(period) ==
    [attrs |-> {}, time |-> 0, last_report |-> NoneValue,
     reports |-> << >>, chunking_period_sec |-> DEFAULT_PERIOD_SECS,
     timestamps |-> << >>, batch_timestamps |-> NoneValue,
     curr_batch_timestamps |-> NoneValue,
     batch_start |-> [t |-> 0, e9 |-> 0], batch_end |-> [t |-> 0, e9 |-> 0]]

\* time.time()
Seconds(curr) == [t |-> curr, e9 |-> 0]

\* int(10**9 * x)
ToNanos(x) == [t |-> x.t, e9 |-> x.e9 + 1]

\* pd.DataFrame.from_dict(data): the rows of a list of dicts, no row for None
FromDict(data) == IF data.isNone THEN << >> ELSE data.rows

\* table.assign(epoch=epoch)
AssignEpoch(table, e) ==
    [i \in 1..Len(table) |->
        [batch |-> table[i].batch, start |-> table[i].start,
         end |-> table[i].end, epoch |-> e]]

\* super().<hook>(x): the parent's hook is called without the metrics map
WithoutLogs(f) == [f EXCEPT !.logs = NoLogs]
BackWithLogs(g, f) == [g EXCEPT !.logs = f.logs]

\* mutant: the buffer of the epoch before is kept
Experiment_on_epoch_begin_NoReset(f, curr) ==
    LET g == BackWithLogs(Chunking_on_epoch_begin(WithoutLogs(f), curr), f)
    IN IF Ok(g)
       THEN [g EXCEPT !.obj.attrs = @ \cup {"curr_batch_timestamps"}]
       ELSE g

Experiment_on_epoch_begin(f, curr) ==
    LET g == BackWithLogs(Chunking_on_epoch_begin(WithoutLogs(f), curr), f)
    IN IF Ok(g)
       THEN [g EXCEPT !.obj.curr_batch_timestamps = NoneValue,
                      !.obj.attrs = @ \cup {"curr_batch_timestamps"}]
       ELSE g

Experiment_on_train_batch_begin(f, curr) ==
    [f EXCEPT !.obj.batch_start = Seconds(curr),
              !.obj.attrs = @ \cup {"batch_start"}]

\* the row the hook appends, after the parent's hook returned
ExperimentAppendRow(g, b, curr) ==
    LET g1 == [g EXCEPT !.obj.batch_end = ToNanos(Seconds(curr)),
                        !.obj.attrs = @ \cup {"batch_end"}]
        g2 == [g1 EXCEPT !.obj.batch_start = ToNanos(@)]
        row == [batch |-> b, start |-> g2.obj.batch_start, end |-> g2.obj.batch_end]
    IN IF "batch_start" \notin g1.obj.attrs THEN Raise(g1, "AttributeError")
       ELSE IF "curr_batch_timestamps" \notin g2.obj.attrs THEN Raise(g2, "AttributeError")
       ELSE IF g2.obj.curr_batch_timestamps.isNone
       THEN [g2 EXCEPT !.obj.curr_batch_timestamps = Value(<< row >>)]
       ELSE [g2 EXCEPT !.obj.curr_batch_timestamps = Value(Append(@.rows, row))]

Experiment_on_train_batch_end(f, b, curr, r) ==
    LET g == BackWithLogs(Chunking_on_train_batch_end(WithoutLogs(f), curr, r), f)
    IN IF Ok(g) THEN ExperimentAppendRow(g, b, curr) ELSE g

\* mutant: curr_batch_timestamps = None (no batch ended) is not accepted
ExperimentStoreTable_NoneFails(g, e) ==
    IF "curr_batch_timestamps" \notin g.obj.attrs THEN Raise(g, "AttributeError")
    ELSE IF g.obj.curr_batch_timestamps.isNone THEN Raise(g, "TypeError")
    ELSE LET table == g.obj.curr_batch_timestamps.rows
         IN [g EXCEPT !.obj.batch_timestamps = Value(table),
                      !.obj.timestamps = Put(@, e, AssignEpoch(table, e))]

\* the timestamp tables the hook stores, after the parent's hook returned
ExperimentStoreTable(g, e) ==
    IF "curr_batch_timestamps" \notin g.obj.attrs THEN Raise(g, "AttributeError")
    ELSE LET table == IF g.obj.batch_timestamps.isNone
                      THEN FromDict(g.obj.curr_batch_timestamps)
                      ELSE pd_concat(<< FromDict(g.obj.curr_batch_timestamps) >>)
         IN [g EXCEPT !.obj.batch_timestamps = Value(table),
                      !.obj.timestamps = Put(@, e, AssignEpoch(table, e))]

Experiment_on_epoch_end(f, e, r) ==
    LET g == BackWithLogs(Chunking_on_epoch_end(WithoutLogs(f), e, r), f)
    IN IF Ok(g) THEN ExperimentStoreTable(g, e) ELSE g

(***************************************************************************)
(* JCarbonEpochCallback, JCarbonBatchCallback, JCarbonDumpingEpochCallback:*)
(* one window per epoch, one per batch, one per epoch dumped to a file.    *)
(***************************************************************************)
EpochInit == [reports |-> << >>]

Epoch_on_epoch_begin(f) == start_jcarbon(f)

Epoch_on_epoch_end(f, e, r) ==
    LET f1 == stop_jcarbon(f, r)
    IN IF Ok(f1)
       THEN LET df == to_dataframe(Returned(f1))
            IN [f1 EXCEPT !.obj.reports = Put(@, e, df),
                          !.logs = add_jcarbon_log(df, f1.logs),
                          !.writes = LogAssignments(df, f1.logs)]
       ELSE f1

BatchInit == [reports |-> << >>]

\* the hook's first argument is the batch index: reports is keyed by it
Batch_on_train_batch_begin(f, b) ==
    LET f1 == start_jcarbon(f)
    IN IF Ok(f1) THEN [f1 EXCEPT !.obj.reports = Put(@, b, << >>)] ELSE f1

\* add_jcarbon_log is handed the list: with a metrics map that has entries it
\* fails on list.groupby
Batch_on_train_batch_end(f, b, r) ==
    IF b \notin DOMAIN f.obj.reports THEN Raise(f, "KeyError")
    ELSE LET f1 == stop_jcarbon(f, r)
             f2 == IF Ok(f1)
                   THEN [f1 EXCEPT !.obj.reports[b] = Append(@, to_dataframe(Returned(f1)))]
                   ELSE f1
         IN IF Ok(f2) /\ ~f2.logs.isNone /\ DOMAIN f2.logs.d # {}
            THEN Raise(f2, "AttributeError")
            ELSE f2

\* __init__ with output_path=None
DumpingInit == [output_path |-> "/tmp/jcarbon-pid"]

Dumping_on_epoch_begin(f) == start_jcarbon(f)

\* mutant: the session is stopped and its Report is not dumped
Dumping_on_epoch_end_NoDump(f, e) == client_stop(f)

Dumping_on_epoch_end(f, e) == client_dump(client_stop(f), e)

(***************************************************************************)
(* What is observed of a hook, and of a callback since its epochBegin.     *)
(***************************************************************************)
\* a callback's remote calls since construction, up to its first start: tr so
\* far, calls made by one more hook
UpToFirstStart(tr, calls) ==
    IF \E i \in DOMAIN tr : tr[i] = "start" THEN tr
    ELSE LET I == {i \in DOMAIN calls : calls[i] = "start"}
         IN IF I = {} THEN tr \o calls
            ELSE tr \o SubSeq(calls, 1, CHOOSE i \in I : \A j \in I : i <= j)

Count(calls, op) == Cardinality({i \in DOMAIN calls : calls[i] = op})

Outcome(f, hook) ==
    [hook |-> hook, err |-> f.err, calls |-> f.calls, ret |-> f.ret,
     checked |-> f.checked, fired |-> f.fired, writes |-> f.writes, fail |-> f.fail]

NoOutcome ==
    [hook |-> "none", err |-> "none", calls |-> << >>, ret |-> << >>,
     checked |-> FALSE, fired |-> FALSE, writes |-> << >>, fail |-> "none"]

\* the iteration-end times, in ticks after epochBegin, of the worked example
ScenarioTimes == << 5, 10, 15, 21, 26 >>

\* how many of ScenarioTimes the iteration ends of this epoch have matched: -1 once one differs
ScenarioStep(scen, rel) ==
    IF scen >= 0 /\ scen < Len(ScenarioTimes) /\ rel = ScenarioTimes[scen + 1]
    THEN scen + 1
    ELSE -1

\* begun: the time of the last iterationBegin; pairs: the iterationBegin/iterationEnd
\* times of the iterations ended; digest: the assignments of the last flush that wrote
ObsZero(curr) ==
    [starts |-> 0, stops |-> 0, boundaries |-> 0, evals |-> 0, windows |-> << >>,
     t0 |-> curr, firedAt |-> << >>, scen |-> 0,
     begun |-> curr, pairs |-> << >>, digest |-> << >>]

Observe(o, f, hook, curr) ==
    [starts |-> o.starts + Count(f.calls, "start"),
     stops |-> o.stops + Count(f.calls, "stop"),
     boundaries |-> o.boundaries + (IF f.fired THEN 1 ELSE 0),
     evals |-> o.evals + (IF f.checked THEN 1 ELSE 0),
     windows |-> o.windows \o f.ret,
     t0 |-> o.t0,
     firedAt |-> IF f.fired THEN Append(o.firedAt, curr - o.t0) ELSE o.firedAt,
     scen |-> IF hook = "on_train_batch_end" THEN ScenarioStep(o.scen, curr - o.t0) ELSE o.scen,
     begun |-> IF hook = "on_train_batch_begin" THEN curr ELSE o.begun,
     pairs |-> IF hook = "on_train_batch_end"
               THEN Append(o.pairs, [start |-> o.begun, end |-> curr])
               ELSE o.pairs,
     digest |-> IF f.writes # << >> THEN f.writes ELSE o.digest]

(***************************************************************************)
(* The hooks, fired on every callback with the same clock reading, the     *)
(* same metrics map and the same answer of the backend.                    *)
(***************************************************************************)
Pick(c, x1, x2, x3) == IF c = "chunking" THEN x1 ELSE IF c = "chunking2" THEN x2 ELSE x3

FrameOf(c, lg, fail) == Frame(Pick(c, chunk, chunk2, expt), backend[c], lg, fail)

\* the three frames of one hook, written back to the state
Commit(hook, curr, f1, f2, f3, reset) ==
    /\ now' = curr
    /\ chunk' = f1.obj
    /\ chunk2' = f2.obj
    /\ expt' = f3.obj
    /\ backend' = [c \in Callbacks |-> Pick(c, f1, f2, f3).sess]
    /\ out' = [c \in Callbacks |-> Outcome(Pick(c, f1, f2, f3), hook)]
    /\ logs' = [c \in Callbacks |-> Pick(c, f1, f2, f3).logs]
    /\ obs' = [c \in Callbacks |->
                  Observe(IF reset THEN ObsZero(curr) ELSE obs[c],
                          Pick(c, f1, f2, f3), hook, curr)]
    /\ trace' = [c \in Callbacks |-> UpToFirstStart(trace[c], Pick(c, f1, f2, f3).calls)]

OnEpochBegin(e, dt, lg, fail) ==
    LET curr == now + dt
    IN Commit("on_epoch_begin", curr,
              Chunking_on_epoch_begin(FrameOf("chunking", lg, fail), curr),
              Chunking2_on_epoch_begin(FrameOf("chunking2", lg, fail), curr),
              Experiment_on_epoch_begin(FrameOf("experiment", lg, fail), curr),
              TRUE)

\* the chunking callbacks do not define on_train_batch_begin: Keras' own does nothing
OnTrainBatchBegin(b, dt, lg, fail) ==
    LET curr == now + dt
    IN Commit("on_train_batch_begin", curr,
              FrameOf("chunking", lg, fail),
              FrameOf("chunking2", lg, fail),
              Experiment_on_train_batch_begin(FrameOf("experiment", lg, fail), curr),
              FALSE)

OnTrainBatchEnd(b, dt, lg, r, fail) ==
    LET curr == now + dt
    IN Commit("on_train_batch_end", curr,
              Chunking_on_train_batch_end(FrameOf("chunking", lg, fail), curr, r),
              Chunking2_on_train_batch_end(FrameOf("chunking2", lg, fail), curr, r),
              Experiment_on_train_batch_end(FrameOf("experiment", lg, fail), b, curr, r),
              FALSE)

\* stop_jcarbon called on each callback, outside any hook
OnStopJcarbon(dt, lg, r, fail) ==
    LET curr == now + dt
    IN Commit("stop_jcarbon", curr,
              stop_jcarbon(FrameOf("chunking", lg, fail), r),
              stop_jcarbon(FrameOf("chunking2", lg, fail), r),
              stop_jcarbon(FrameOf("experiment", lg, fail), r),
              FALSE)

OnEpochEnd(e, dt, lg, r, fail) ==
    LET curr == now + dt
    IN Commit("on_epoch_end", curr,
              Chunking_on_epoch_end(FrameOf("chunking", lg, fail), e, r),
              Chunking2_on_epoch_end(FrameOf("chunking2", lg, fail), e, r),
              Experiment_on_epoch_end(FrameOf("experiment", lg, fail), e, r),
              FALSE)

(***************************************************************************)
(* The hooks, fired on the callbacks that do not chunk.  A hook a class    *)
(* does not define is Keras' own, which does nothing.                      *)
(***************************************************************************)
PickVariant(v, x1, x2, x3) == IF v = "epoch" THEN x1 ELSE IF v = "batch" THEN x2 ELSE x3

SimpleFrameOf(v, lg, fail) == Frame(simple[v].obj, simple[v].sess, lg, fail)

SimpleCommit(hook, f1, f2, f3) ==
    simple' = [v \in Variants |->
                  LET f == PickVariant(v, f1, f2, f3)
                  IN [obj |-> f.obj, sess |-> f.sess, out |-> Outcome(f, hook),
                      logs |-> f.logs, trace |-> UpToFirstStart(simple[v].trace, f.calls)]]

SimpleOnEpochBegin(e, lg, fail) ==
    SimpleCommit("on_epoch_begin",
                 Epoch_on_epoch_begin(SimpleFrameOf("epoch", lg, fail)),
                 SimpleFrameOf("batch", lg, fail),
                 Dumping_on_epoch_begin(SimpleFrameOf("dumping", lg, fail)))

SimpleOnTrainBatchBegin(b, lg, fail) ==
    SimpleCommit("on_train_batch_begin",
                 SimpleFrameOf("epoch", lg, fail),
                 Batch_on_train_batch_begin(SimpleFrameOf("batch", lg, fail), b),
                 SimpleFrameOf("dumping", lg, fail))

SimpleOnTrainBatchEnd(b, lg, r, fail) ==
    SimpleCommit("on_train_batch_end",
                 SimpleFrameOf("epoch", lg, fail),
                 Batch_on_train_batch_end(SimpleFrameOf("batch", lg, fail), b, r),
                 SimpleFrameOf("dumping", lg, fail))

SimpleOnEpochEnd(e, lg, r, fail) ==
    SimpleCommit("on_epoch_end",
                 Epoch_on_epoch_end(SimpleFrameOf("epoch", lg, fail), e, r),
                 SimpleFrameOf("batch", lg, fail),
                 Dumping_on_epoch_end(SimpleFrameOf("dumping", lg, fail), e))

(***************************************************************************)
(* The training loop: epochBegin, {batchBegin, batchEnd}*, epochEnd, with  *)
(* a backend whose calls all succeed.                                      *)
(***************************************************************************)
\* the callbacks as constructed, the clock at 0, no session at the service
ConstructedWith(p) ==
    /\ now = 0
    /\ phase = "idle"
    /\ epoch = 0
    /\ iter = 0
    /\ chunk = ChunkingInit(p)
    /\ chunk2 = Chunking2Init(p)
    /\ expt = ExperimentInit(p)
    /\ backend = [c \in Callbacks |-> [open |-> FALSE, unread |-> FALSE]]
    /\ out = [c \in Callbacks |-> NoOutcome]
    /\ logs = [c \in Callbacks |-> NoLogs]
    /\ obs = [c \in Callbacks |-> ObsZero(0)]
    /\ trace = [c \in Callbacks |-> << >>]
    /\ simple = [v \in Variants |->
                  [obj |-> PickVariant(v, EpochInit, BatchInit, DumpingInit),
                   sess |-> [open |-> FALSE, unread |-> FALSE, files |-> {}],
                   out |-> NoOutcome, logs |-> NoLogs, trace |-> << >>]]

Constructed == \E p \in ChunkingPeriods : ConstructedWith(p)

Init ==
    /\ Constructed
    /\ pf = [op |-> "none"]

EpochBegin ==
    /\ phase = "idle"
    /\ epoch < MaxEpochs
    /\ \E dt \in GapDeltas, lg \in {NoLogs} :
          /\ now + dt <= MaxNow
          /\ OnEpochBegin(epoch, dt, lg, "none")
    /\ phase' = "epoch"
    /\ iter' = 0
    /\ UNCHANGED << epoch, simple, pf >>

BatchBegin ==
    /\ phase = "epoch"
    /\ iter < MaxIters
    /\ \E dt \in GapDeltas, lg \in {NoLogs} :
          /\ now + dt <= MaxNow
          /\ OnTrainBatchBegin(iter, dt, lg, "none")
    /\ phase' = "batch"
    /\ UNCHANGED << epoch, iter, simple, pf >>

BatchEnd ==
    /\ phase = "batch"
    /\ \E dt \in BatchDeltas, lg \in LogsIn, r \in Reports :
          /\ now + dt <= MaxNow
          /\ OnTrainBatchEnd(iter, dt, lg, r, "none")
    /\ phase' = "epoch"
    /\ iter' = iter + 1
    /\ UNCHANGED << epoch, simple, pf >>

EpochEnd ==
    /\ phase = "epoch"
    /\ \E dt \in GapDeltas, lg \in LogsIn, r \in Reports :
          /\ now + dt <= MaxNow
          /\ OnEpochEnd(epoch, dt, lg, r, "none")
    /\ phase' = "idle"
    /\ epoch' = epoch + 1
    /\ UNCHANGED << iter, simple, pf >>

Next == EpochBegin \/ BatchBegin \/ BatchEnd \/ EpochEnd

Spec == Init /\ [][Next]_vars

(***************************************************************************)
(* A caller that does not keep the hook order: any hook, and stop_jcarbon  *)
(* itself, at any time.  pf.hooks counts the calls made.                   *)
(***************************************************************************)
MisuseDeltas == {0, 11}

MisuseInit ==
    /\ Constructed
    /\ pf = [op |-> "misuse", hooks |-> 0]

\* one more call, while the bounds of the model allow it
MisuseCall ==
    /\ pf.hooks < MaxHooks
    /\ pf' = [pf EXCEPT !.hooks = @ + 1]
    /\ UNCHANGED << phase, epoch, iter, simple >>

MisuseEpochBegin ==
    /\ MisuseCall
    /\ \E dt \in MisuseDeltas :
          /\ now + dt <= MaxNow
          /\ OnEpochBegin(0, dt, NoLogs, "none")

MisuseBatchBegin ==
    /\ MisuseCall
    /\ \E dt \in MisuseDeltas :
          /\ now + dt <= MaxNow
          /\ OnTrainBatchBegin(0, dt, NoLogs, "none")

MisuseBatchEnd ==
    /\ MisuseCall
    /\ \E dt \in MisuseDeltas, r \in Reports :
          /\ now + dt <= MaxNow
          /\ OnTrainBatchEnd(0, dt, LossLogs, r, "none")

MisuseEpochEnd ==
    /\ MisuseCall
    /\ \E e \in 0..(MaxEpochs - 1), dt \in MisuseDeltas, r \in Reports :
          /\ now + dt <= MaxNow
          /\ OnEpochEnd(e, dt, LossLogs, r, "none")

MisuseStop ==
    /\ MisuseCall
    /\ \E dt \in MisuseDeltas, r \in Reports :
          /\ now + dt <= MaxNow
          /\ OnStopJcarbon(dt, LossLogs, r, "none")

MisuseNext ==
    MisuseEpochBegin \/ MisuseBatchBegin \/ MisuseBatchEnd \/ MisuseEpochEnd \/ MisuseStop

SpecMisuse == MisuseInit /\ [][MisuseNext]_vars

(***************************************************************************)
(* The training loop over all six callbacks, each with a backend of its    *)
(* own that may fail one remote call of a hook.  The exception of a hook   *)
(* leaves the training loop: the run is aborted.                           *)
(***************************************************************************)
\* the remote call the backend fails, if the hook makes it
Failures == {"none", "purge", "start", "stop", "read", "dump"}

\* the metrics maps and the Reports of this run
FailLogs == {NoLogs, LossLogs}
FailReports == {RA}

FailInit ==
    /\ Constructed
    /\ pf = [op |-> "backend"]

\* some callback's hook raised
Aborts ==
    \/ \E c \in Callbacks : out'[c].err # "none"
    \/ \E v \in Variants : simple'[v].out.err # "none"

FailEpochBegin ==
    /\ phase = "idle"
    /\ epoch < MaxEpochs
    /\ \E dt \in GapDeltas, fail \in Failures :
          /\ now + dt <= MaxNow
          /\ OnEpochBegin(epoch, dt, NoLogs, fail)
          /\ SimpleOnEpochBegin(epoch, NoLogs, fail)
    /\ phase' = IF Aborts THEN "aborted" ELSE "epoch"
    /\ iter' = 0
    /\ UNCHANGED << epoch, pf >>

FailBatchBegin ==
    /\ phase = "epoch"
    /\ iter < MaxIters
    /\ \E dt \in GapDeltas, fail \in Failures :
          /\ now + dt <= MaxNow
          /\ OnTrainBatchBegin(iter, dt, NoLogs, fail)
          /\ SimpleOnTrainBatchBegin(iter, NoLogs, fail)
    /\ phase' = IF Aborts THEN "aborted" ELSE "batch"
    /\ UNCHANGED << epoch, iter, pf >>

FailBatchEnd ==
    /\ phase = "batch"
    /\ \E dt \in BatchDeltas, lg \in FailLogs, r \in FailReports, fail \in Failures :
          /\ now + dt <= MaxNow
          /\ OnTrainBatchEnd(iter, dt, lg, r, fail)
          /\ SimpleOnTrainBatchEnd(iter, lg, r, fail)
    /\ phase' = IF Aborts THEN "aborted" ELSE "epoch"
    /\ iter' = iter + 1
    /\ UNCHANGED << epoch, pf >>

FailEpochEnd ==
    /\ phase = "epoch"
    /\ \E dt \in GapDeltas, lg \in FailLogs, r \in FailReports, fail \in Failures :
          /\ now + dt <= MaxNow
          /\ OnEpochEnd(epoch, dt, lg, r, fail)
          /\ SimpleOnEpochEnd(epoch, lg, r, fail)
    /\ phase' = IF Aborts THEN "aborted" ELSE "idle"
    /\ epoch' = epoch + 1
    /\ UNCHANGED << iter, pf >>

FailNext == FailEpochBegin \/ FailBatchBegin \/ FailBatchEnd \/ FailEpochEnd

SpecFail == FailInit /\ [][FailNext]_vars

(***************************************************************************)
(* The merge of Reports, applied on its own to a list of Reports: window   *)
(* after window as the hooks of the chunking callback do, and in one step  *)
(* as on_epoch_end of JCarbonChunkingCallback2 does.                       *)
(***************************************************************************)
callbackVars ==
    << now, phase, epoch, iter, chunk, chunk2, expt, backend, out, logs, obs, trace, simple >>

MergeInit ==
    /\ ConstructedWith(DEFAULT_PERIOD_SECS)
    /\ \E rs \in [1..MaxMerge -> MergeReports] :
          pf = [op |-> "merge", rs |-> rs, k |-> 0,
                acc |-> NoneValue, list |-> NoneValue, merged |-> NoneValue]

\* the next Report is accumulated, eagerly and in the list
MergeStep ==
    /\ pf.k < Len(pf.rs)
    /\ pf' = [pf EXCEPT !.k = @ + 1,
                        !.acc = Accumulate(@, pf.rs[pf.k + 1]),
                        !.list = Accumulate2(@, pf.rs[pf.k + 1])]
    /\ UNCHANGED callbackVars

\* the list is merged in one step
MergeOnce ==
    /\ pf.k = Len(pf.rs)
    /\ pf.merged.isNone
    /\ pf' = [pf EXCEPT !.merged = Value(MergeAll(pf.list.rows))]
    /\ UNCHANGED callbackVars

MergeNext == MergeStep \/ MergeOnce

SpecMerge == MergeInit /\ [][MergeNext]_vars

(***************************************************************************)
(* add_jcarbon_log, applied on its own to the Series of a Report and a     *)
(* metrics map.                                                            *)
(***************************************************************************)
DigestInit ==
    /\ ConstructedWith(DEFAULT_PERIOD_SECS)
    /\ \E report \in SeqsUpTo(DigestSamples, MaxSamples), lg \in LogsIn :
          pf = [op |-> "digest", report |-> report, df |-> to_dataframe(report),
                logs_in |-> lg, done |-> FALSE, writes |-> << >>, logs_out |-> lg]

Digest ==
    /\ ~pf.done
    /\ pf' = [pf EXCEPT !.done = TRUE,
                        !.writes = LogAssignments(pf.df, pf.logs_in),
                        !.logs_out = add_jcarbon_log(pf.df, pf.logs_in)]
    /\ UNCHANGED callbackVars

DigestNext == Digest

SpecDigest == DigestInit /\ [][DigestNext]_vars

(***************************************************************************)
(* Properties of the training loop's run (Spec).                           *)
(***************************************************************************)
SessionErrors == {"SessionAlreadyOpenError", "NoOpenSessionError"}

\* C1: under the strict hook order no callback ever calls client.start while its
\* session is open or client.stop while it is closed: no hook ends in
\* SessionAlreadyOpenError or NoOpenSessionError.
C1_NoSessionMisuse ==
    \A c \in Callbacks : out[c].err \notin SessionErrors

\* a chunk boundary flushed and restarted the session, in the second epoch
C1_Witness ==
    /\ epoch = 1
    /\ out["chunking"].hook = "on_train_batch_end"
    /\ out["chunking"].calls = << "stop", "read", "purge", "start" >>
    /\ backend["chunking"].open

\* C2: once epochEnd has returned, the start calls and the stop calls issued since
\* epochBegin both number 1 + the chunk boundaries that fired in the epoch.
C2_StartStopCount ==
    (phase = "idle" /\ epoch > 0) =>
        /\ obs["chunking"].starts = 1 + obs["chunking"].boundaries
        /\ obs["chunking"].stops = 1 + obs["chunking"].boundaries

\* an epoch with two chunk boundaries has ended
C2_Witness ==
    /\ phase = "idle"
    /\ epoch > 0
    /\ obs["chunking"].boundaries = 2
    /\ obs["chunking"].starts = 3

\* the time of the last boundary of the epoch, or of epochBegin when none fired
LastBoundary(o) ==
    o.t0 + (IF o.firedAt = << >> THEN 0 ELSE o.firedAt[Len(o.firedAt)])

\* C3: at an iteration end a boundary fires iff the time since the last boundary
\* (or since epochBegin) is strictly more than chunkPeriod; firing sets the
\* last-boundary time to the time of the event, not firing leaves it; and with
\* chunkPeriod = 2 s and iteration ends at 0.5, 1.0, 1.5, 2.1, 2.6 s exactly one
\* boundary fires, at 2.1 s.
C3_ChunkBoundary ==
    /\ [][phase = "batch" =>
            LET elapsed == now' - LastBoundary(obs["chunking"])
                fired == out'["chunking"].fired
            IN /\ fired <=> (elapsed > Ticks(chunk.chunking_period_sec))
               /\ chunk'.time = IF fired THEN now' ELSE LastBoundary(obs["chunking"])
               /\ chunk.time = LastBoundary(obs["chunking"])]_vars
    /\ []((obs["chunking"].scen = Len(ScenarioTimes) /\ chunk.chunking_period_sec = 2)
            => obs["chunking"].firedAt = << 21 >>)

\* the five iteration ends of the example have happened, with chunkPeriod = 2 s
C3_Witness ==
    /\ obs["chunking"].scen = Len(ScenarioTimes)
    /\ chunk.chunking_period_sec = 2
    /\ out["chunking"].hook = "on_train_batch_end"

ReportsOf(c) == Pick(c, chunk, chunk2, expt).reports

\* C4: after an epoch with no iteration every callback has issued one start and
\* one stop, evaluated no boundary condition, raised nothing, and stored for the
\* epoch the Report of its single window; the timestamp table of the epoch has
\* no rows.
C4_ZeroIterationEpoch ==
    (phase = "idle" /\ epoch > 0 /\ iter = 0) =>
        /\ \A c \in Callbacks :
              /\ out[c].err = "none"
              /\ obs[c].starts = 1
              /\ obs[c].stops = 1
              /\ obs[c].evals = 0
              /\ Len(obs[c].windows) = 1
              /\ epoch - 1 \in DOMAIN ReportsOf(c)
              /\ ReportsOf(c)[epoch - 1] = TagEpoch(to_dataframe(obs[c].windows[1]), epoch - 1)
        /\ epoch - 1 \in DOMAIN expt.timestamps
        /\ expt.timestamps[epoch - 1] = << >>

\* a second epoch without iterations has ended, after a first one with iterations
C4_Witness ==
    /\ phase = "idle"
    /\ epoch = 2
    /\ iter = 0
    /\ Len(expt.timestamps[0]) > 0
    /\ expt.timestamps[1] = << >>

\* the samples of the windows before window k
RECURSIVE SamplesBefore(_, _)
SamplesBefore(ws, k) == IF k <= 1 THEN 0 ELSE SamplesBefore(ws, k - 1) + Len(ws[k - 1])

\* report holds, window after window and sample after sample, the samples of ws tagged e
IsConcatenationOf(report, ws, e) ==
    /\ Len(report) = SamplesBefore(ws, Len(ws) + 1)
    /\ \A k \in DOMAIN ws : \A j \in DOMAIN ws[k] :
          report[SamplesBefore(ws, k) + j] =
              [idx |-> << ws[k][j].component_type, ws[k][j].component_id,
                          ws[k][j].unit, ws[k][j].source, e >>,
               value |-> ws[k][j].value]

\* C6: the Report stored for an epoch at epochEnd is the concatenation, in the
\* order the windows were closed, of the Reports read since that epoch's
\* epochBegin: each window once, its samples in order, nothing of another epoch.
C6_EpochReport ==
    (phase = "idle" /\ epoch > 0) =>
        /\ DOMAIN chunk.reports = 0..(epoch - 1)
        /\ IsConcatenationOf(chunk.reports[epoch - 1], obs["chunking"].windows, epoch - 1)

\* a second epoch of three windows has ended
C6_Witness ==
    /\ phase = "idle"
    /\ epoch = 2
    /\ Len(obs["chunking"].windows) = 3
    /\ obs["chunking"].windows[1] # obs["chunking"].windows[2]

\* C7: run side by side, the list-accumulating callback and the eagerly
\* concatenating one issue the same remote calls in every hook and hold the same
\* per-epoch Reports.
C7_ModesAgree ==
    /\ out["chunking"].calls = out["chunking2"].calls
    /\ out["chunking"].ret = out["chunking2"].ret
    /\ chunk.reports = chunk2.reports

\* both callbacks have stored two epochs, the second of several windows
C7_Witness ==
    /\ phase = "idle"
    /\ DOMAIN chunk2.reports = {0, 1}
    /\ Len(chunk2.last_report.rows) >= 2
    /\ Len(chunk.reports[0]) > 0

\* a clock reading, in integer nanoseconds
Nanos(t) == [t |-> t, e9 |-> 1]

NanosLeq(a, b) == a.e9 = b.e9 /\ a.t <= b.t

\* C11: the timestamp table stored for an epoch at its epochEnd has one row per
\* iterationBegin/iterationEnd pair of that epoch, in the order they happened,
\* with the pair's batch index and times in nanoseconds; every row of a stored
\* table carries the table's epoch and has start <= end.
C11_TimestampTable ==
    (phase = "idle" /\ epoch > 0) =>
        /\ DOMAIN expt.timestamps = 0..(epoch - 1)
        /\ \A e \in DOMAIN expt.timestamps : \A i \in DOMAIN expt.timestamps[e] :
              /\ expt.timestamps[e][i].epoch = e
              /\ NanosLeq(expt.timestamps[e][i].start, expt.timestamps[e][i].end)
        /\ LET table == expt.timestamps[epoch - 1]
               pairs == obs["experiment"].pairs
           IN /\ Len(table) = iter
              /\ Len(table) = Len(pairs)
              /\ \A i \in DOMAIN table :
                    /\ table[i].batch = i - 1
                    /\ table[i].start = Nanos(pairs[i].start)
                    /\ table[i].end = Nanos(pairs[i].end)

\* a second epoch of two iterations has ended, after a first one with an iteration
C11_Witness ==
    /\ phase = "idle"
    /\ epoch = 2
    /\ Len(expt.timestamps[0]) >= 1
    /\ Len(expt.timestamps[1]) = 2
    /\ expt.timestamps[1][2].start.t > expt.timestamps[1][1].end.t - 1
    /\ expt.timestamps[1][2].start.t < expt.timestamps[1][2].end.t

\* the timestamp rows of the iterations of the epoch observed in o
EpochRows(o) ==
    [i \in 1..Len(o.pairs) |->
        [batch |-> i - 1, start |-> Nanos(o.pairs[i].start), end |-> Nanos(o.pairs[i].end)]]

RowsIn(table) == IF table.isNone THEN << >> ELSE table.rows

\* C12: epochEnd appends the rows of the epoch's iterations to the cumulative
\* table batch_timestamps, the rows of the earlier epochs staying in front, and
\* leaves the per-epoch buffer empty.
C12_CumulativeTimeline ==
    [][(phase = "epoch" /\ phase' = "idle") =>
          /\ RowsIn(expt'.batch_timestamps) =
                RowsIn(expt.batch_timestamps) \o EpochRows(obs["experiment"])
          /\ RowsIn(expt'.curr_batch_timestamps) = << >>]_vars

\* C13: constructed with the same chunking period and fired the same events, the
\* timestamp-tracking callback and the plain chunking callback fire their chunk
\* boundaries at the same iteration ends.
C13_PeriodHonoured ==
    out["chunking"].hook = "on_train_batch_end" =>
        /\ out["experiment"].hook = "on_train_batch_end"
        /\ out["experiment"].fired = out["chunking"].fired
        /\ obs["experiment"].firedAt = obs["chunking"].firedAt

\* C15: whenever a hook has returned, a callback's session is open iff an epoch
\* is in progress (its epochBegin has returned, its epochEnd was not yet called);
\* a chunk boundary stops, reads and starts again within the iteration end, and
\* no session is open between epochs.
C15_CoverageFollowsEpoch ==
    \A c \in Callbacks :
        /\ backend[c].open <=> phase \in {"epoch", "batch"}
        /\ out[c].fired =>
              /\ out[c].calls = << "stop", "read", "purge", "start" >>
              /\ backend[c].open
        /\ out[c].hook = "on_epoch_end" => ~backend[c].open

\* in the second epoch an iteration end has crossed a chunk boundary
C15_Witness ==
    /\ epoch = 1
    /\ phase = "epoch"
    /\ out["chunking"].fired
    /\ obs["chunking"].boundaries = 1
    /\ \A c \in Callbacks : backend[c].open

(***************************************************************************)
(* Properties of a caller that does not keep the hook order (SpecMisuse).  *)
(***************************************************************************)
\* the call just made ends a sample: stop_jcarbon, epochEnd, or an iteration end
\* at which a chunk boundary is due
EndsSample(o) ==
    \/ o.hook \in {"stop_jcarbon", "on_epoch_end"}
    \/ o.hook = "on_train_batch_end" /\ o.fired

\* C5: ending a sample while no session is open fails with NoOpenSessionError and
\* changes nothing: the session is still closed, no read is issued, the
\* accumulation and the stored per-epoch Reports are as before.
C5_EndSampleWhenClosed ==
    [][(~backend["chunking"].open /\ EndsSample(out'["chunking"])) =>
          /\ out'["chunking"].err = "NoOpenSessionError"
          /\ ~backend'["chunking"].open
          /\ Count(out'["chunking"].calls, "read") = 0
          /\ chunk'.last_report = chunk.last_report
          /\ chunk'.reports = chunk.reports]_vars

(***************************************************************************)
(* Properties of the training loop with a backend that may fail (SpecFail).*)
(***************************************************************************)
RemoteCalls == {"purge", "start", "stop", "read", "dump"}

\* how the last hook went, for each of the six callbacks
Outcomes == {out[c] : c \in Callbacks} \cup {simple[v].out : v \in Variants}

\* C14: a hook makes each remote call at most once; a remote call that the backend
\* fails is the last call the hook makes, and the hook raises the failure to its
\* caller: nothing is retried, nothing is called after it, nothing is swallowed.
C14_NoRetry ==
    \A o \in Outcomes :
        /\ \A op \in RemoteCalls : Count(o.calls, op) <= 1
        /\ (\E i \in DOMAIN o.calls : o.calls[i] = o.fail) =>
              /\ o.err = "BackendUnavailableError"
              /\ o.calls[Len(o.calls)] = o.fail
        /\ o.err = "BackendUnavailableError" =>
              /\ o.calls # << >>
              /\ o.calls[Len(o.calls)] = o.fail
              /\ phase = "aborted"

\* at the end of an epoch with a chunk boundary, the read of the chunking callback
\* failed after its stop, while the dumping callback stopped and dumped
C14_Witness ==
    /\ phase = "aborted"
    /\ out["chunking"].hook = "on_epoch_end"
    /\ out["chunking"].calls = << "stop", "read" >>
    /\ out["chunking"].err = "BackendUnavailableError"
    /\ obs["chunking"].boundaries >= 1
    /\ simple["dumping"].out.calls = << "stop", "dump" >>
    /\ simple["dumping"].out.err = "none"

\* the remote calls of each of the six callbacks, up to its first start
Traces == {trace[c] : c \in Callbacks} \cup {simple[v].trace : v \in Variants}

\* C18: in the remote calls a callback instance has made since its construction,
\* the first start comes right after a purge.
C18_PurgeBeforeFirstStart ==
    \A tr \in Traces : \A i \in DOMAIN tr :
        tr[i] = "start" => (i > 1 /\ tr[i - 1] = "purge")

\* every callback has made its first start, the batch callback at the first
\* iteration of the first epoch; the second epoch is running
C18_Witness ==
    /\ epoch = 1
    /\ phase = "epoch"
    /\ \A tr \in Traces : Len(tr) >= 2 /\ tr[Len(tr)] = "start"

\* the remote calls of a hook, made on a session that is open or not and has an
\* uncollected window or not: every purge finds the session closed and the
\* window of the last stop read or dumped
RECURSIVE PurgeSafe(_, _, _)
PurgeSafe(open, unread, calls) ==
    IF calls = << >> THEN TRUE
    ELSE LET op == Head(calls)
         IN CASE op = "purge" -> ~open /\ ~unread /\ PurgeSafe(open, FALSE, Tail(calls))
              [] op = "start" -> PurgeSafe(TRUE, unread, Tail(calls))
              [] op = "stop" -> PurgeSafe(FALSE, TRUE, Tail(calls))
              [] op \in {"read", "dump"} -> PurgeSafe(open, FALSE, Tail(calls))

Sessions == {backend[c] : c \in Callbacks} \cup {simple[v].sess : v \in Variants}

\* C19: every purge a callback issues finds its session closed and the window of
\* its last stop already read (dumped, by the dumping callback); a stopped window
\* is left uncollected by a hook only if the hook raised.
C19_PurgeLosesNothing ==
    /\ [][/\ \A c \in Callbacks :
               PurgeSafe(backend[c].open, backend[c].unread, out'[c].calls)
          /\ \A v \in Variants :
               PurgeSafe(simple[v].sess.open, simple[v].sess.unread, simple'[v].out.calls)]_vars
    /\ []((\E s \in Sessions : s.unread) => phase = "aborted")

\* two epochs have ended, one with a chunk boundary, both dumped to their files
C19_Witness ==
    /\ phase = "idle"
    /\ epoch = 2
    /\ obs["chunking"].boundaries >= 1
    /\ simple["dumping"].sess.files = {0, 1}
    /\ \E b \in DOMAIN simple["batch"].obj.reports : Len(simple["batch"].obj.reports[b]) = 1
    /\ \A s \in Sessions : ~s.unread /\ ~s.open

(***************************************************************************)
(* Properties of the merge (SpecMerge).                                    *)
(***************************************************************************)
\* C8: accumulating Reports one after the other, as done at the chunk boundaries
\* and at epoch end, gives the rows that concatenating them all in one step gives.
C8_MergeAssociative ==
    (pf.op = "merge" /\ ~pf.merged.isNone) =>
        /\ ~pf.acc.isNone
        /\ pf.acc.rows = pf.merged.rows

\* three different Reports have been merged both ways
C8_Witness ==
    /\ pf.op = "merge"
    /\ ~pf.merged.isNone
    /\ Len(pf.rs) >= 3
    /\ pf.rs[1] # pf.rs[2]
    /\ pf.rs[2] # pf.rs[3]
    /\ Len(pf.merged.rows) >= 4

(***************************************************************************)
(* Properties of the digest (SpecDigest).                                  *)
(***************************************************************************)
\* the sum of the values > 0 among the rows of df at the indices I
RECURSIVE SumOfPositives(_, _)
SumOfPositives(df, I) ==
    IF I = {} THEN 0
    ELSE LET i == CHOOSE x \in I : TRUE
         IN (IF df[i].value > 0 THEN df[i].value ELSE 0) + SumOfPositives(df, I \ {i})

\* the rows of df in group k
RowsOf(df, k) == {i \in DOMAIN df : df[i].idx = k}

EnergyGroups(df) == {k \in GroupKeys(df) : k[3] = "JOULES"}

Truthy(lg) == ~lg.isNone /\ DOMAIN lg.d # {}

DigestDone == pf.op = "digest" /\ pf.done /\ Truthy(pf.logs_in)

EnergyRowsOfType(df, ct) == {i \in DOMAIN df : df[i].idx[1] = ct /\ df[i].idx[3] = "JOULES"}

\* C10: after add_jcarbon_log the entry of a component type and the energy unit is
\* the sum of all the values > 0 of the JOULES samples of that component type,
\* over every component id and every source.
C10_DigestPerComponentType ==
    DigestDone =>
        \A k \in EnergyGroups(pf.df) :
            /\ << k[1], "J" >> \in DOMAIN pf.logs_out.d
            /\ pf.logs_out.d[<< k[1], "J" >>] =
                  SumOfPositives(pf.df, EnergyRowsOfType(pf.df, k[1]))

(***************************************************************************)
(* Properties of the digest in the training loop's run (Spec).             *)
(***************************************************************************)
\* the hook that just returned flushed: a chunk boundary fired, or it was epochEnd
Flushed(o) == o.fired \/ o.hook = "on_epoch_end"

\* the map d holds the digest of the Series df
HoldsDigest(d, df) ==
    \A k \in EnergyGroups(df) :
        /\ << k[1], "J" >> \in DOMAIN d
        /\ d[<< k[1], "J" >>] = SumOfPositives(df, RowsOf(df, k))

\* C16: when a hook of the chunking callback that flushed returns, and it was
\* passed a metrics map (be it without entries), the map holds the digest of the
\* running accumulation.
C16_DigestAtEveryFlush ==
    (Flushed(out["chunking"]) /\ ~logs["chunking"].isNone) =>
        HoldsDigest(logs["chunking"].d, chunk.last_report.rows)

\* C17: with the same chunking period in effect, the timestamp-tracking callback
\* leaves in the metrics map of every hook what the plain chunking callback
\* leaves in it, and stores the same per-epoch Reports.
C17_ExperimentForwards ==
    expt.chunking_period_sec = chunk.chunking_period_sec =>
        /\ logs["experiment"] = logs["chunking"]
        /\ expt.reports = chunk.reports

\* the samples of the windows ws, one window after the other, as a Series
RECURSIVE SeriesOf(_)
SeriesOf(ws) ==
    IF ws = << >> THEN << >>
    ELSE [i \in 1..Len(Head(ws)) |->
             [idx |-> << Head(ws)[i].component_type, Head(ws)[i].component_id,
                         Head(ws)[i].unit, Head(ws)[i].source >>,
              value |-> Head(ws)[i].value]] \o SeriesOf(Tail(ws))

\* a stored per-epoch Report, without the epoch of its index
WithoutEpoch(report) ==
    [i \in 1..Len(report) |->
        [idx |-> SubSeq(report[i].idx, 1, 4), value |-> report[i].value]]

\* the assignments ws are, one per energy group, the digest of the Series df
IsDigestOf(ws, df) ==
    /\ Len(ws) = Cardinality(EnergyGroups(df))
    /\ \A k \in EnergyGroups(df) : \E i \in DOMAIN ws :
          /\ ws[i].key = << k[1], "J" >>
          /\ ws[i].value = SumOfPositives(df, RowsOf(df, k))

\* C20: the digest a flush of the chunking callback writes is the digest of all
\* the windows read since epochBegin; no value it writes is below the value the
\* flush before it in the epoch wrote under the same key; and the digest written
\* at epochEnd is the digest of the Report stored for the epoch.
C20_DigestCumulative ==
    [][(phase # "idle" /\ out'["chunking"].writes # << >>) =>
          LET writes == out'["chunking"].writes
              before == obs["chunking"].digest
          IN /\ Flushed(out'["chunking"])
             /\ IsDigestOf(writes, SeriesOf(obs'["chunking"].windows))
             /\ HoldsDigest(logs'["chunking"].d, SeriesOf(obs'["chunking"].windows))
             /\ \A i \in DOMAIN before : \A j \in DOMAIN writes :
                   before[i].key = writes[j].key => before[i].value <= writes[j].value
             /\ out'["chunking"].hook = "on_epoch_end" =>
                   IsDigestOf(writes, WithoutEpoch(chunk'.reports[epoch]))]_vars

\* an epoch of three windows has ended: its digest holds the energy of two
\* windows under one key and that of the third under another
C20_Witness ==
    /\ phase = "idle"
    /\ out["chunking"].hook = "on_epoch_end"
    /\ Len(obs["chunking"].windows) = 3
    /\ Len(out["chunking"].writes) = 2
    /\ \E i \in DOMAIN out["chunking"].writes : out["chunking"].writes[i].value = 6
    /\ logs["chunking"].d[<< "CPU", "J" >>] = 6

====
